---- MODULE Spec2Model ----
(***************************************************************************)
(* Model of crystal-viewer's interface generation glue:                    *)
(*   utils/interface_builder.py  (analyze_substrates, get_terminations,    *)
(*                                count_zsl_matches, build_interfaces)     *)
(*   app.py                      (Interface Builder section)               *)
(*   make_interfaces.py          (command-line driver)                     *)
(* Numbers stand for floats: areas in A^2, strains in units of 1e-2; the   *)
(* value 0 is Python's 0.0.                                                *)
(***************************************************************************)
EXTENDS Integers, Sequences, FiniteSets, Bags, TLC

\* ------------------------------------------------------------------ bounds
MaxMatches == 3        \* longest ZSL match list of a builder
MaxTerms == 2          \* most terminations of a builder
MaxNum == 3            \* largest num_interfaces passed
MaxPairs == 2          \* orientation pairs covered by a screen
MaxPairMatches == 2    \* most ZSL matches of one orientation pair
MaxBatch == 2          \* largest --batch-size given to the script
MaxDocs == 3           \* most documents a formula search finds
MaxStructures == 2     \* most structures handed to to_zip

\* an optional integer: None is the empty tuple, the integer n is <<n>>
None == <<>>
Some(n) == <<n>>

\* --------------------------------------------------------------- data sets
Areas == {10, 20}
Strains == {0, 2}
\* What happens when the interface of a match is constructed:
\*   "ok"       a complete Interface is yielded
\*   "singular" the deformation is singular: no interface for this match
\*   "fails"    the construction raises
Deformations == {"ok", "singular", "fails"}

ZSLMatch == [match_area : Areas, von_mises_strain : Strains, deformation : Deformations]

\* rank order of the matches the ZSL engine emits: non-decreasing area and,
\* within equal area, non-decreasing strain
Ranked(ms) ==
    \A a, b \in 1..Len(ms) :
        a < b => \/ ms[a].match_area < ms[b].match_area
                 \/ /\ ms[a].match_area = ms[b].match_area
                    /\ ms[a].von_mises_strain <= ms[b].von_mises_strain

SeqsUpTo(S, n) == UNION {[1..k -> S] : k \in 0..n}

MatchLists == {ms \in SeqsUpTo(ZSLMatch, MaxMatches) : Ranked(ms)}

\* ------------------------------------------------------------------- state
VARIABLES
    zsl_matches,        \* cib.zsl_matches, fixed for the builder's lifetime
    terminations,       \* len(cib.terminations)
    cib_max_area,       \* the max_area the builder was asked for
    pc,                 \* position of build_interfaces: idle, loop, done, raised
    caller,             \* who called build_interfaces: "api" or "app"
    termination,        \* argument termination (index into cib.terminations)
    num_interfaces,     \* argument num_interfaces (None or Some(n))
    progress_callback,  \* TRUE when a callback was passed
    film_given,         \* TRUE when film_structure and film_miller were passed
    total,              \* local total
    it_pos,             \* iterator: index of the next match it will look at
    i,                  \* enumerate index of the next element
    results,            \* local results
    cb_calls,           \* arguments of the callback invocations so far
    pulls,              \* number of elements requested from the iterator
    surface_matches,    \* per orientation pair, the ZSL matches of the two loaded structures
    sa_args,            \* arguments of the last Analyze click
    sa_returned,        \* what analyze_substrates returned to the last click
    sa_status,          \* what the Analyze handler showed: none, warning, stored, error
    sa_matches,         \* st.session_state["sa_matches"]
    lib_started,        \* parameters of the last computation handed to the library
    flow_entry,         \* the entry point that ran last
    flow_status,        \* how it ended: none, returned, raised, ok, shown, unhandled, exit1
    flow_message,       \* the message it displayed
    ib_cib,             \* st.session_state["ib_cib"]
    ib_terminations,    \* st.session_state["ib_terminations"]
    prev,               \* the caller's record of an earlier build_interfaces call
    en_pc,              \* position of compute_interface_energies: idle, loop, done
    en_dicts,           \* argument interface_dicts
    en_callback,        \* TRUE when a progress callback was passed
    en_total,           \* local total
    en_i,               \* enumerate index of the next entry
    energies,           \* local energies
    en_calls,           \* arguments of the callback invocations so far
    en_prev,            \* the caller's record of an earlier compute_interface_energies call
    cli_pc,             \* position of make_interfaces.main: idle, prompt, finished, crashed
    batch_size,         \* args.batch_size
    cli_it,             \* the script's interface_iterator: next match it will look at
    all_interfaces,     \* the script's all_interfaces
    batch,              \* what the last generate_interfaces_batch call returned
    batch_pulls,        \* elements that call requested from the iterator
    cli_progress,       \* the counts handed to print_progress_bar so far
    cli_response,       \* the last answer to "Generate more interfaces?"
    cli_choice,         \* the last text entered at "Select termination"
    selected_termination, \* what select_termination returned
    mp_fn,              \* the mp_client function called last
    mp_arg,             \* its mp_id or formula argument
    mp_env,             \* how the Materials Project API reacted
    mp_opened,          \* TRUE when the call opened the API client
    mp_request,         \* the identifier or formula sent to the API
    mp_result,          \* what the call returned or raised
    left_data,          \* st.session_state["left_data"]
    right_data,         \* st.session_state["right_data"]
    zip_input,          \* the dict handed to the last to_zip call
    zip_members         \* member names of the archive it produced

vars == <<zsl_matches, terminations, cib_max_area, pc, caller, termination, num_interfaces,
          progress_callback, film_given, total, it_pos, i, results, cb_calls, pulls,
          surface_matches, sa_args, sa_returned, sa_status, sa_matches,
          lib_started, flow_entry, flow_status, flow_message,
          ib_cib, ib_terminations, prev,
          en_pc, en_dicts, en_callback, en_total, en_i, energies, en_calls, en_prev,
          cli_pc, batch_size, cli_it, all_interfaces, batch, batch_pulls,
          cli_progress, cli_response, cli_choice, selected_termination,
          mp_fn, mp_arg, mp_env, mp_opened, mp_request, mp_result,
          left_data, right_data, zip_input, zip_members>>

screenVars == <<surface_matches, sa_args, sa_returned, sa_status, sa_matches>>
frameVars == <<pc, caller, termination, num_interfaces, progress_callback, film_given,
               total, it_pos, i, results, cb_calls, pulls>>
sessionVars == <<ib_cib, ib_terminations>>
flowVars == <<lib_started, flow_entry, flow_status, flow_message>>
energyVars == <<en_pc, en_dicts, en_callback, en_total, en_i, energies, en_calls, en_prev>>
batchVars == <<cli_pc, batch_size, cli_it, all_interfaces, batch, batch_pulls,
               cli_progress, cli_response, cli_choice, selected_termination>>
mpVars == <<mp_fn, mp_arg, mp_env, mp_opened, mp_request, mp_result>>
zipVars == <<left_data, right_data, zip_input, zip_members>>
beyondCalls == <<energyVars, batchVars, mpVars, zipVars>>
extVars == <<prev, beyondCalls>>

builderVars == <<zsl_matches, terminations, cib_max_area>>
argVars == <<caller, termination, num_interfaces, progress_callback, film_given, total>>

\* ----------------------------------------------------------------- helpers
count_zsl_matches(ms) == Len(ms)

\* cib.get_interfaces(...): a generator over the match list in rank order.
\* Looking from match p on: a singular match is passed over, a failing one
\* raises, a good one is yielded, the end of the list stops the iteration.
RECURSIVE get_interfaces_next(_, _)
get_interfaces_next(ms, p) ==
    IF p > Len(ms) THEN [kind |-> "stop", at |-> p]
    ELSE IF ms[p].deformation = "ok" THEN [kind |-> "yield", at |-> p]
    ELSE IF ms[p].deformation = "fails" THEN [kind |-> "raise", at |-> p]
    ELSE get_interfaces_next(ms, p + 1)

\* compute_interface_strain(match, ...): Deformation(match.match_transformation)
\* cannot be formed for a singular match; otherwise the von Mises strain.
compute_interface_strain(m) ==
    IF m.deformation = "singular" THEN [raised |-> TRUE, value |-> 0]
    ELSE [raised |-> FALSE, value |-> m.von_mises_strain]

\* lines 134-141: the entry appended for the element with enumerate index k
\* (0-based) whose structure iface was yielded by the iterator
Entry(ms, k, iface, fg) ==
    LET area == IF k < Len(ms) THEN ms[k + 1].match_area ELSE 0
        strain == IF fg /\ k < Len(ms)
                  THEN LET r == compute_interface_strain(ms[k + 1])
                       IN IF r.raised THEN 0 ELSE r.value
                  ELSE 0
    IN [structure |-> iface, match_area |-> area, von_mises_strain |-> strain]

\* line 144: the loop's exit test after an append
BreakNow_NoneAsZero(n, res) == Len(res) >= (IF n = None THEN 0 ELSE n[1])
BreakNow(n, res) == n # None /\ Len(res) >= n[1]

\* ------------------------------------------------------------------- Init
\* line 83: get_terminations' default max_area
DefaultMaxArea == 800

\* build_interfaces is not running
FrameIdle ==
    /\ pc = "idle"
    /\ caller = "api"
    /\ termination = 0
    /\ num_interfaces = None
    /\ progress_callback = FALSE
    /\ film_given = FALSE
    /\ total = 0
    /\ it_pos = 1
    /\ i = 0
    /\ results = <<>>
    /\ cb_calls = <<>>
    /\ pulls = 0

\* app.py 113: no screen has run
ScreenIdle ==
    /\ sa_args = None
    /\ sa_returned = <<>>
    /\ sa_status = "none"
    /\ sa_matches = None

FlowIdle ==
    /\ lib_started = None
    /\ flow_entry = "none"
    /\ flow_status = "none"
    /\ flow_message = ""

\* app.py 110-111
SessionIdle ==
    /\ ib_cib = None
    /\ ib_terminations = None

\* no earlier call is remembered
CallsIdle == prev = None

\* compute_interface_energies is not running
EnergyIdle ==
    /\ en_pc = "idle"
    /\ en_dicts = <<>>
    /\ en_callback = FALSE
    /\ en_total = 0
    /\ en_i = 0
    /\ energies = <<>>
    /\ en_calls = <<>>
    /\ en_prev = None

\* the script is not running
BatchIdle ==
    /\ cli_pc = "idle"
    /\ batch_size = 0
    /\ cli_it = [pos |-> 1, termination |-> 0]
    /\ all_interfaces = <<>>
    /\ batch = <<>>
    /\ batch_pulls = 0
    /\ cli_progress = <<>>
    /\ cli_response = None
    /\ cli_choice = None
    /\ selected_termination = None

\* no mp_client function has been called
MpIdle ==
    /\ mp_fn = "none"
    /\ mp_arg = <<>>
    /\ mp_env = None
    /\ mp_opened = FALSE
    /\ mp_request = None
    /\ mp_result = None

\* app.py 103-104: nothing is loaded; to_zip has not been called
ZipIdle ==
    /\ left_data = None
    /\ right_data = None
    /\ zip_input = None
    /\ zip_members = <<>>

ExtIdle == CallsIdle /\ EnergyIdle /\ BatchIdle /\ MpIdle /\ ZipIdle

\* a builder exists; the application, when it made it, stored it (app.py
\* 555-560) unless it has no terminations
Init ==
    /\ zsl_matches \in MatchLists
    /\ terminations \in 0..MaxTerms
    /\ cib_max_area = DefaultMaxArea
    /\ FrameIdle
    /\ surface_matches = <<>>
    /\ ScreenIdle
    /\ FlowIdle
    /\ ib_cib = IF terminations = 0 THEN None
                ELSE Some([terminations |-> terminations, zsl_matches |-> zsl_matches,
                           max_area |-> cib_max_area])
    /\ ib_terminations = IF terminations = 0 THEN None ELSE Some(terminations)
    /\ ExtIdle

\* ------------------------------------------------------------- parameters
Millers == {<<0, 0, 0>>, <<1, 0, 0>>}
MaxAreas == {0, 10, 800}
FilmThicknesses == {0, 18}
SubstrateThicknesses == {0, 12}

\* spec section 7: what parameter validation has to let through
ValidMiller(m) == m # <<0, 0, 0>>
ValidParams(c) ==
    /\ "substrate_miller" \in DOMAIN c => ValidMiller(c.substrate_miller)
    /\ "film_miller" \in DOMAIN c => ValidMiller(c.film_miller)
    /\ "max_area" \in DOMAIN c => c.max_area > 0
    /\ "film_thickness" \in DOMAIN c => c.film_thickness > 0
    /\ "substrate_thickness" \in DOMAIN c => c.substrate_thickness > 0

\* ---------------------------------------------------------------- actions
\* line 125: cib.get_interfaces(...) makes a new generator on every call; it
\* starts at the first match wherever an earlier generator (at old) stopped
get_interfaces_Resumed(old) == old
get_interfaces(old) == 1

\* lines 125-132: build_interfaces is entered; the thicknesses go to
\* cib.get_interfaces as they are
Enter(who, t, ft, st, n, cb, fg) ==
    /\ pc = "idle"
    /\ pc' = "loop"
    /\ caller' = who
    /\ termination' = t
    /\ num_interfaces' = n
    /\ progress_callback' = cb
    /\ film_given' = fg
    /\ it_pos' = get_interfaces(it_pos)
    /\ i' = 0
    /\ results' = <<>>
    /\ cb_calls' = <<>>
    /\ pulls' = 0
    /\ lib_started' = Some([op |-> "get_interfaces", film_thickness |-> ft,
                            substrate_thickness |-> st])
    /\ flow_entry' = IF who = "app" THEN "app_generate" ELSE "build_interfaces"
    /\ flow_status' = "none"
    /\ flow_message' = ""

\* a direct call of build_interfaces that leaves the thicknesses at their
\* defaults (lines 109-110), with any other arguments
CallBuildInterfaces ==
    /\ \E t \in 1..terminations,
          n \in {None} \cup {Some(k) : k \in 0..MaxNum}, cb \in BOOLEAN, fg \in BOOLEAN :
            Enter("api", t, 18, 12, n, cb, fg)
    /\ total' = count_zsl_matches(zsl_matches)
    /\ UNCHANGED <<builderVars, screenVars, sessionVars, extVars>>

\* Streamlit's number_input refuses a value outside [min_value, max_value]
NumberInputRaises(value, min_value, max_value) ==
    value < min_value \/ value > max_value

Min(a, b) == IF a <= b THEN a ELSE b

\* app.py 565-618: the Generate Interfaces button. The builder is the stored
\* one; num_interfaces comes from a number input limited to 1..total_matches
\* or is None for "Generate all"; the thicknesses come from inputs with
\* min_value=1; film_structure and film_miller are not passed
AppGenerate ==
    /\ ib_terminations # None
    /\ LET cib == ib_cib[1]
           total_matches == count_zsl_matches(cib.zsl_matches)
       IN /\ ~NumberInputRaises(Min(10, total_matches), 1, total_matches)
          /\ \E t \in 1..ib_terminations[1],
                n \in {None} \cup {Some(k) : k \in 1..total_matches} :
                Enter("app", t, 18, 12, n, TRUE, FALSE)
          /\ zsl_matches' = cib.zsl_matches
          /\ terminations' = cib.terminations
          /\ cib_max_area' = cib.max_area
          /\ total' = total_matches
    /\ UNCHANGED <<screenVars, sessionVars, extVars>>

outsideFrame == <<builderVars, screenVars, flowVars, sessionVars, extVars>>

\* lines 133-145: one pass of the for loop that gets an element
LoopYield ==
    /\ pc = "loop"
    /\ LET nx == get_interfaces_next(zsl_matches, it_pos)
       IN /\ nx.kind = "yield"
          /\ LET iface == [match |-> nx.at, termination |-> termination]
                 res == Append(results, Entry(zsl_matches, i, iface, film_given))
             IN /\ results' = res
                /\ cb_calls' = IF progress_callback
                               THEN Append(cb_calls, <<Len(res), total>>)
                               ELSE cb_calls
                /\ pc' = IF BreakNow(num_interfaces, res) THEN "done" ELSE "loop"
          /\ it_pos' = nx.at + 1
          /\ i' = i + 1
          /\ pulls' = pulls + 1
    /\ UNCHANGED <<argVars, outsideFrame>>

\* line 133: the iterator is exhausted, the loop ends, line 146 returns
LoopExhausted ==
    /\ pc = "loop"
    /\ LET nx == get_interfaces_next(zsl_matches, it_pos)
       IN /\ nx.kind = "stop"
          /\ it_pos' = nx.at
    /\ pc' = "done"
    /\ pulls' = pulls + 1
    /\ UNCHANGED <<argVars, i, results, cb_calls, outsideFrame>>

\* line 133: the iterator raises; nothing in build_interfaces catches it
LoopRaise ==
    /\ pc = "loop"
    /\ LET nx == get_interfaces_next(zsl_matches, it_pos)
       IN /\ nx.kind = "raise"
          /\ it_pos' = nx.at
    /\ pc' = "raised"
    /\ pulls' = pulls + 1
    /\ UNCHANGED <<argVars, i, results, cb_calls, outsideFrame>>

\* the call is over. A direct caller gets the list or the exception; the
\* application (app.py 619-641) shows an error for an exception or an empty
\* list and otherwise saves the structures and reports success
Return ==
    /\ pc \in {"done", "raised"}
    /\ IF caller = "app"
       THEN IF pc = "raised"
            THEN /\ flow_status' = "shown"
                 /\ flow_message' = "Error generating interfaces"
            ELSE IF results = <<>>
            THEN /\ flow_status' = "shown"
                 /\ flow_message' = "No interfaces were generated."
            ELSE /\ flow_status' = "ok"
                 /\ flow_message' = "Generated interfaces and saved"
       ELSE /\ flow_status' = IF pc = "raised" THEN "raised" ELSE "returned"
            /\ flow_message' = ""
    /\ pc' = "idle"
    /\ caller' = "api"
    /\ termination' = 0
    /\ num_interfaces' = None
    /\ progress_callback' = FALSE
    /\ film_given' = FALSE
    /\ total' = 0
    /\ it_pos' = 1
    /\ i' = 0
    /\ results' = <<>>
    /\ cb_calls' = <<>>
    /\ pulls' = 0
    /\ prev' = None
    /\ UNCHANGED <<builderVars, screenVars, lib_started, flow_entry, ib_cib, ib_terminations,
                   beyondCalls>>

Next ==
    \/ CallBuildInterfaces
    \/ AppGenerate
    \/ LoopYield
    \/ LoopExhausted
    \/ LoopRaise
    \/ Return

Spec == Init /\ [][Next]_vars

\* ------------------------------------------------- build_interfaces claims
\* indices of the matches whose interface the iterator yields when it is
\* consumed from the start until it stops or raises
RECURSIVE YieldedFrom(_, _)
YieldedFrom(ms, p) ==
    LET nx == get_interfaces_next(ms, p)
    IN IF nx.kind = "yield" THEN <<nx.at>> \o YieldedFrom(ms, nx.at + 1) ELSE <<>>

Available(ms) == Len(YieldedFrom(ms, 1))

Structures(res) == [k \in 1..Len(res) |-> res[k].structure.match]

\* C1 (as stated): a call with num_interfaces=None on a builder with N matches
\* returns exactly N entries.
C1_ExactlyN ==
    (pc = "done" /\ num_interfaces = None) => Len(results) = Len(zsl_matches)

\* C1 (amended): a call with num_interfaces=None ends only when the iterator
\* ends: on return the iterator is exhausted and the list holds one entry per
\* interface the iterator yielded, in order (N entries when no match is passed
\* over); the only other end is the iterator raising.
C1_Unbounded ==
    num_interfaces = None =>
        /\ pc = "done" => /\ it_pos > Len(zsl_matches)
                          /\ Structures(results) = YieldedFrom(zsl_matches, 1)
                          /\ (\A k \in 1..Len(zsl_matches) : zsl_matches[k].deformation = "ok")
                                => Len(results) = Len(zsl_matches)
        /\ pc = "raised" => /\ it_pos <= Len(zsl_matches)
                            /\ zsl_matches[it_pos].deformation = "fails"

C1_Witness ==
    /\ pc = "done"
    /\ num_interfaces = None
    /\ Len(results) = 2
    /\ Len(zsl_matches) = 3

\* C2: a call with an integer num_interfaces >= 0 on a builder with A available
\* interfaces returns exactly min(num_interfaces, A) entries.
C2_Bounded ==
    (pc = "done" /\ num_interfaces # None) =>
        Len(results) = Min(num_interfaces[1], Available(zsl_matches))

\* C3: in a returned list the match_area of every entry is the match_area of
\* the match its structure was built from.
C3_AreaProvenance ==
    pc = "done" =>
        \A k \in 1..Len(results) :
            results[k].match_area = zsl_matches[results[k].structure.match].match_area

\* C4: in a returned list the von_mises_strain of every entry is the von Mises
\* strain of the match its structure was built from, for every caller.
C4_StrainProvenance ==
    pc = "done" =>
        \A k \in 1..Len(results) :
            results[k].von_mises_strain = zsl_matches[results[k].structure.match].von_mises_strain

\* C8: a match whose construction fails never makes build_interfaces raise; the
\* call returns the entries of all the other matches it was asked for.
C8_FailureSkipped ==
    /\ pc # "raised"
    /\ (pc = "done" /\ num_interfaces = None) =>
            Len(results) = Cardinality({k \in 1..Len(zsl_matches) : zsl_matches[k].deformation = "ok"})

\* C15: the builder's match list, and with it the list build_interfaces
\* returns, is in non-decreasing order of match_area and, among equal areas,
\* of von_mises_strain.
C15_RankOrder ==
    /\ Ranked(zsl_matches)
    /\ pc = "done" => Ranked(results)

\* ====================================================== substrate screening
\* a ZSL match of one orientation pair, as the ZSL engine finds it
SurfaceMatch == [match_area : Areas, von_mises_strain : Strains]

SurfaceMatchLists == {ms \in SeqsUpTo(SurfaceMatch, MaxPairMatches) : Ranked(ms)}

\* the Miller indices of the k-th orientation pair the analyzer visits
FilmMillerOf(k) == <<1, (k - 1) \div 2, 0>>
SubstrateMillerOf(k) == <<1, 0, (k - 1) % 2>>

\* ZSLGenerator(max_area=...): the matches of a pair within the area ceiling
Found(ms, max_area) == SelectSeq(ms, LAMBDA m : m.match_area <= max_area)

\* the SubstrateMatch object the analyzer makes of match m of pair k
SubstrateMatchOf(k, m) ==
    [film_miller |-> FilmMillerOf(k), substrate_miller |-> SubstrateMillerOf(k),
     von_mises_strain |-> m.von_mises_strain, match_area |-> m.match_area,
     elastic_energy |-> 0, ground_state_energy |-> 0]

\* list(sa.calculate(film, substrate, lowest=...)) over pairs k..MaxPairs: the
\* pairs are visited in order; with lowest the ZSL engine stops after the
\* first match of a pair, otherwise every match of the pair is yielded
RECURSIVE calculate(_, _, _, _)
calculate(sm, max_area, lowest, k) ==
    IF k > Len(sm) THEN <<>>
    ELSE LET found == Found(sm[k], max_area)
             taken == IF lowest /\ Len(found) > 1 THEN <<found[1]>> ELSE found
         IN [j \in 1..Len(taken) |-> SubstrateMatchOf(k, taken[j])]
            \o calculate(sm, max_area, lowest, k + 1)

\* lines 29-36: one dict per match
ResultDict(m) ==
    [film_miller |-> m.film_miller, substrate_miller |-> m.substrate_miller,
     von_mises_strain |-> m.von_mises_strain, match_area |-> m.match_area]

\* list.sort(key=lambda r: r[key]) is stable: r goes after every element whose
\* key is not larger
InsertByKey(r, sorted, key) ==
    LET before == {j \in 1..Len(sorted) : sorted[j][key] <= r[key]}
        n == Cardinality(before)
    IN SubSeq(sorted, 1, n) \o <<r>> \o SubSeq(sorted, n + 1, Len(sorted))

RECURSIVE SortByKey(_, _)
SortByKey(rs, key) ==
    IF rs = <<>> THEN <<>>
    ELSE InsertByKey(rs[Len(rs)], SortByKey(SubSeq(rs, 1, Len(rs) - 1), key), key)

\* line 37: results.sort(key=lambda r: r["von_mises_strain"])
SortResults_ByArea(rs) == SortByKey(rs, "match_area")
SortResults(rs) == SortByKey(rs, "von_mises_strain")

\* lines 11-38
analyze_substrates_AllMatches(sm, max_area) ==
    LET matches == calculate(sm, max_area, FALSE, 1)
    IN SortResults([j \in 1..Len(matches) |-> ResultDict(matches[j])])
analyze_substrates(sm, max_area) ==
    LET matches == calculate(sm, max_area, TRUE, 1)
    IN SortResults([j \in 1..Len(matches) |-> ResultDict(matches[j])])

\* app.py 456-458: the Max area input of the screen (min_value=10.0)
ScreenAreas == {10, 20}

InitScreen ==
    /\ zsl_matches = <<>>
    /\ terminations = 0
    /\ cib_max_area = DefaultMaxArea
    /\ FrameIdle
    /\ surface_matches \in [1..MaxPairs -> SurfaceMatchLists]
    /\ ScreenIdle
    /\ FlowIdle
    /\ SessionIdle
    /\ ExtIdle

\* app.py 469-472: what the handler does with the returned list
StoreMatches_Always(matches, old) == Some(matches)
StoreMatches(matches, old) == IF matches = <<>> THEN old ELSE Some(matches)

\* app.py 460-474: the Analyze Substrate Matches button; the library call
\* either returns or raises (lib_raises)
AnalyzeClick ==
    \E max_area \in ScreenAreas, lib_raises \in BOOLEAN :
        /\ sa_args' = Some([max_area |-> max_area, lib_raises |-> lib_raises])
        /\ IF lib_raises
           THEN /\ sa_returned' = <<>>
                /\ sa_status' = "error"
                /\ sa_matches' = sa_matches
           ELSE LET matches == analyze_substrates(surface_matches, max_area)
                IN /\ sa_returned' = matches
                   /\ sa_status' = IF matches = <<>> THEN "warning" ELSE "stored"
                   /\ sa_matches' = StoreMatches(matches, sa_matches)
        /\ UNCHANGED <<builderVars, frameVars, surface_matches, flowVars, sessionVars, extVars>>

NextScreen == AnalyzeClick

SpecScreen == InitScreen /\ [][NextScreen]_vars

\* ---------------------------------------------------------- screen claims
Returned == sa_status \in {"warning", "stored"}

Count(seq, x) == Cardinality({j \in 1..Len(seq) : seq[j] = x})

\* the matches the analyzer produced for the last click
Produced == calculate(surface_matches, sa_args[1].max_area, TRUE, 1)

\* the entries of the returned list that belong to orientation pair k
EntriesOf(k) ==
    {j \in 1..Len(sa_returned) :
        /\ sa_returned[j].film_miller = FilmMillerOf(k)
        /\ sa_returned[j].substrate_miller = SubstrateMillerOf(k)}

\* C5: the list analyze_substrates returns is sorted by non-decreasing
\* von_mises_strain and is a permutation of the analyzer's matches, each
\* reduced to exactly the four keys film_miller, substrate_miller,
\* von_mises_strain, match_area with the match's values.
C5_SortedPermutation ==
    Returned =>
        /\ \A a, b \in 1..Len(sa_returned) :
              a < b => sa_returned[a].von_mises_strain <= sa_returned[b].von_mises_strain
        /\ Len(sa_returned) = Len(Produced)
        /\ \A j \in 1..Len(Produced) :
              LET d == [film_miller |-> Produced[j].film_miller,
                        substrate_miller |-> Produced[j].substrate_miller,
                        von_mises_strain |-> Produced[j].von_mises_strain,
                        match_area |-> Produced[j].match_area]
                  same == {n \in 1..Len(Produced) :
                              /\ Produced[n].film_miller = d.film_miller
                              /\ Produced[n].substrate_miller = d.substrate_miller
                              /\ Produced[n].von_mises_strain = d.von_mises_strain
                              /\ Produced[n].match_area = d.match_area}
              IN Count(sa_returned, d) = Cardinality(same)
        /\ \A j \in 1..Len(sa_returned) :
              DOMAIN sa_returned[j] =
                  {"film_miller", "substrate_miller", "von_mises_strain", "match_area"}

\* a screen of several matching pairs whose strains the analyzer produced out
\* of order
C5_Witness ==
    /\ Returned
    /\ Len(sa_returned) = MaxPairs
    /\ Produced[1].von_mises_strain > Produced[MaxPairs].von_mises_strain

C7_EmptyScreen ==
    /\ [](Returned =>
            /\ \A k \in 1..MaxPairs :
                  Found(surface_matches[k], sa_args[1].max_area) = <<>> => EntriesOf(k) = {}
            /\ (\A k \in 1..MaxPairs : Found(surface_matches[k], sa_args[1].max_area) = <<>>)
                  => (sa_returned = <<>> /\ sa_status = "warning"))
    /\ [][sa_status' = "warning" => sa_matches' = sa_matches]_vars
    /\ [](sa_matches # None => sa_matches[1] # <<>>)

\* an empty screen after one that stored a result
C7_Witness ==
    /\ sa_status = "warning"
    /\ sa_returned = <<>>
    /\ sa_matches # None

\* ============================================================ entry points
\* the builders the library can hand back in the flows below
FlowMatchLists ==
    {<<>>} \cup {<<m>> : m \in {z \in ZSLMatch : z.match_area = 10 /\ z.von_mises_strain = 0}}
           \cup {<<[match_area |-> 20, von_mises_strain |-> 0, deformation |-> "ok"]>>}

\* interface_builder.py 90, make_interfaces.py 243: the area ceiling the ZSL
\* generator is made with
ZSLGenerator_DefaultArea(max_area) == DefaultMaxArea
ZSLGenerator(max_area) == max_area

\* CoherentInterfaceBuilder(..., zslgen=zsl): the builder keeps the matches
\* within the generator's ceiling
FlowBuilders(max_area) ==
    {[terminations |-> t, zsl_matches |-> Found(ms, ZSLGenerator(max_area)),
      max_area |-> max_area] : t \in {0, 1}, ms \in FlowMatchLists}

\* the surface matches of the two structures the functions are called
\* with: one orientation pair with two matches
FlowSurfaces ==
    { << <<[match_area |-> 10, von_mises_strain |-> 2],
           [match_area |-> 20, von_mises_strain |-> 0]>> >> }

\* what a library computation started with parameters c can do: it hands back
\* a result; with parameters outside its domain it may also raise
LibraryMayRaise(c) == IF ValidParams(c) THEN {FALSE} ELSE {FALSE, TRUE}

InitFlow ==
    /\ zsl_matches = <<>>
    /\ terminations = 0
    /\ cib_max_area = DefaultMaxArea
    /\ FrameIdle
    /\ surface_matches \in FlowSurfaces
    /\ ScreenIdle
    /\ FlowIdle
    /\ SessionIdle
    /\ ExtIdle

\* lines 78-98: get_terminations called directly
ApiGetTerminations ==
    /\ pc = "idle"
    /\ \E sm \in Millers, fm \in Millers, ma \in MaxAreas :
        LET c == [op |-> "CoherentInterfaceBuilder", substrate_miller |-> sm,
                  film_miller |-> fm, max_area |-> ma]
        IN /\ lib_started' = Some(c)
           /\ flow_entry' = "get_terminations"
           /\ flow_message' = ""
           /\ \E raised \in LibraryMayRaise(c), cib \in FlowBuilders(ma) :
                IF raised
                THEN /\ flow_status' = "raised"
                     /\ UNCHANGED builderVars
                ELSE /\ flow_status' = "returned"
                     /\ zsl_matches' = cib.zsl_matches
                     /\ terminations' = cib.terminations
                     /\ cib_max_area' = cib.max_area
    /\ UNCHANGED <<frameVars, screenVars, sessionVars, extVars>>

\* lines 11-38: analyze_substrates called directly
ApiAnalyzeSubstrates ==
    /\ pc = "idle"
    /\ \E ma \in MaxAreas :
        LET c == [op |-> "SubstrateAnalyzer", max_area |-> ma]
        IN /\ lib_started' = Some(c)
           /\ flow_entry' = "analyze_substrates"
           /\ flow_message' = ""
           /\ \E raised \in LibraryMayRaise(c) :
                IF raised
                THEN /\ flow_status' = "raised"
                     /\ sa_returned' = sa_returned
                ELSE /\ flow_status' = "returned"
                     /\ sa_returned' = analyze_substrates(surface_matches, ma)
    /\ UNCHANGED <<builderVars, frameVars, surface_matches, sa_args, sa_status, sa_matches,
                   sessionVars, extVars>>

\* lines 106-132: build_interfaces called directly with explicit thicknesses
CallBuildInterfacesThickness ==
    /\ \E t \in 1..terminations, ft \in FilmThicknesses, st \in SubstrateThicknesses,
          n \in {None} \cup {Some(k) : k \in 0..MaxNum}, cb \in BOOLEAN, fg \in BOOLEAN :
            Enter("api", t, ft, st, n, cb, fg)
    /\ total' = count_zsl_matches(zsl_matches)
    /\ UNCHANGED <<builderVars, screenVars, sessionVars, extVars>>

\* app.py 526-588: a run of the script in which Find Terminations was
\* pressed. The Miller inputs have no limits, Max area has min_value=10. The
\* handler ends at line 562; the same run then draws step 2 from the session
\* state, where the num_ifaces input gets value=min(10, total_matches),
\* min_value=1, max_value=total_matches
AppFindTerminations ==
    /\ pc = "idle"
    /\ \E sm \in Millers, fm \in Millers, ma \in {a \in MaxAreas : a >= 10} :
        LET c == [op |-> "CoherentInterfaceBuilder", substrate_miller |-> sm,
                  film_miller |-> fm, max_area |-> ma]
        IN /\ lib_started' = Some(c)
           /\ flow_entry' = "app_find"
           /\ \E raised \in LibraryMayRaise(c), cib \in FlowBuilders(ma) :
                LET stored == ~raised /\ cib.terminations # 0
                    session_cib == IF stored THEN Some(cib) ELSE ib_cib
                    session_terms == IF stored THEN Some(cib.terminations) ELSE ib_terminations
                    total_matches == IF session_terms = None THEN 0
                                     ELSE count_zsl_matches(session_cib[1].zsl_matches)
                    drawn_ok == \/ session_terms = None
                                \/ ~NumberInputRaises(Min(10, total_matches), 1, total_matches)
                IN /\ IF raised THEN UNCHANGED builderVars
                      ELSE /\ zsl_matches' = cib.zsl_matches
                           /\ terminations' = cib.terminations
                           /\ cib_max_area' = cib.max_area
                   /\ ib_cib' = session_cib
                   /\ ib_terminations' = session_terms
                   /\ IF ~drawn_ok
                      THEN /\ flow_status' = "unhandled"
                           /\ flow_message' = "StreamlitAPIException"
                      ELSE IF raised
                      THEN /\ flow_status' = "shown"
                           /\ flow_message' = "Error finding terminations"
                      ELSE IF cib.terminations = 0
                      THEN /\ flow_status' = "shown"
                           /\ flow_message' = "No terminations found for the given Miller indices."
                      ELSE /\ flow_status' = "ok"
                           /\ flow_message' = "ZSL matches available for this configuration."
    /\ UNCHANGED <<frameVars, screenVars, extVars>>

\* make_interfaces.py 243-273: the script builds the ZSL generator and the
\* builder from the parsed arguments (parse_arguments, lines 64-107, checks
\* types only) and stops with exit code 1 when there is no termination
CliStart ==
    /\ pc = "idle"
    /\ \E sm \in Millers, fm \in Millers, ma \in MaxAreas :
        LET c == [op |-> "CoherentInterfaceBuilder", substrate_miller |-> sm,
                  film_miller |-> fm, max_area |-> ma]
        IN /\ lib_started' = Some(c)
           /\ flow_entry' = "cli"
           /\ \E raised \in LibraryMayRaise(c), cib \in FlowBuilders(ma) :
                IF raised
                THEN /\ flow_status' = "unhandled"
                     /\ flow_message' = "Traceback"
                     /\ UNCHANGED builderVars
                ELSE /\ zsl_matches' = cib.zsl_matches
                     /\ terminations' = cib.terminations
                     /\ cib_max_area' = cib.max_area
                     /\ IF cib.terminations = 0
                        THEN /\ flow_status' = "exit1"
                             /\ flow_message' = "Error: No terminations found for the given Miller indices!"
                        ELSE /\ flow_status' = "ok"
                             /\ flow_message' = "Available terminations:"
    /\ UNCHANGED <<frameVars, screenVars, sessionVars, extVars>>

NextFlow ==
    \/ ApiGetTerminations
    \/ ApiAnalyzeSubstrates
    \/ CallBuildInterfacesThickness
    \/ AppFindTerminations
    \/ AppGenerate
    \/ CliStart
    \/ LoopYield
    \/ LoopExhausted
    \/ LoopRaise
    \/ Return

SpecFlow == InitFlow /\ [][NextFlow]_vars

\* ------------------------------------------------------ entry point claims
\* C9: with a builder that has no terminations, or terminations but no ZSL
\* match, no entry point ends in an unhandled exception: the application and
\* the script end with a message, the functions return, and build_interfaces
\* returns an empty list without having called the progress callback.
C9_EmptyIsValue ==
    /\ (flow_entry = "app_find" /\ ValidParams(lib_started[1])
        /\ ib_cib # None /\ ib_cib[1].zsl_matches = <<>>)
            => flow_status \in {"ok", "shown"}
    /\ (flow_entry \in {"app_find", "cli", "get_terminations"} /\ ValidParams(lib_started[1])
        /\ (terminations = 0 \/ zsl_matches = <<>>))
            => flow_status \in {"ok", "shown", "exit1", "returned"}
    /\ (pc = "done" /\ zsl_matches = <<>>) => (results = <<>> /\ cb_calls = <<>>)
    /\ (pc = "raised") => zsl_matches # <<>>

\* C10: no computation is handed to the library with a non-positive
\* thickness, an all-zero Miller index or a non-positive max_area.
C10_ValidatedFirst ==
    lib_started # None => ValidParams(lib_started[1])

ProfileArea(k) == IF k <= 2 THEN 10 ELSE 20
ProfileStrain(k) == IF k % 2 = 1 THEN 0 ELSE 2
CallMatchLists ==
    UNION {{[k \in 1..n |-> [match_area |-> ProfileArea(k),
                             von_mises_strain |-> ProfileStrain(k),
                             deformation |-> d[k]]] : d \in [1..n -> Deformations]}
           : n \in 0..MaxMatches}

InitCalls ==
    /\ zsl_matches \in CallMatchLists
    /\ terminations \in 0..MaxTerms
    /\ cib_max_area = DefaultMaxArea
    /\ FrameIdle
    /\ surface_matches = <<>>
    /\ ScreenIdle
    /\ FlowIdle
    /\ SessionIdle
    /\ ExtIdle

\* the caller does one thing at a time
CallerFree == en_pc = "idle" /\ cli_pc = "idle"

\* the first call, with any arguments
CallFirst == CallerFree /\ CallBuildInterfaces

\* the call is over and the caller calls build_interfaces (lines 106-132)
\* again on the same builder with the same num_interfaces and film
\* arguments, with any termination and with or without a callback. What the
\* first call gave is kept in prev; others tells whether a call with another
\* termination was made since.
CallAgain ==
    /\ pc \in {"done", "raised"}
    /\ caller = "api"
    /\ CallerFree
    /\ prev' = IF prev = None
               THEN Some([termination |-> termination,
                          progress_callback |-> progress_callback,
                          outcome |-> pc,
                          results |-> IF pc = "done" THEN results ELSE <<>>,
                          others |-> FALSE])
               ELSE Some([prev[1] EXCEPT !.others = @ \/ termination # prev[1].termination])
    /\ \E t \in 1..terminations, cb \in BOOLEAN :
            /\ termination' = t
            /\ progress_callback' = cb
    /\ pc' = "loop"
    /\ total' = count_zsl_matches(zsl_matches)
    /\ it_pos' = get_interfaces(it_pos)
    /\ i' = 0
    /\ results' = <<>>
    /\ cb_calls' = <<>>
    /\ pulls' = 0
    /\ UNCHANGED <<caller, num_interfaces, film_given, builderVars, screenVars, flowVars,
                   sessionVars, beyondCalls>>

\* ------------------------------------------------ compute_interface_energies
\* the potential energy the calculator gives for a structure (line 72); it
\* depends on the structure only
PotentialEnergy(structure) == 0 - (10 * structure.match + structure.termination)

\* line 74: the arguments of the callback for the entry with enumerate index k
EnergyProgress_ZeroBased(k, n) == <<k, n>>
EnergyProgress(k, n) == <<k + 1, n>>

\* line 72: energies.append(...)
AppendEnergy_Front(es, e) == <<e>> \o es
AppendEnergy(es, e) == Append(es, e)

\* lines 66-68: compute_interface_energies is called with the list a
\* build_interfaces call returned
EnergyCall ==
    /\ pc = "done"
    /\ caller = "api"
    /\ prev = None
    /\ CallerFree
    /\ en_pc' = "loop"
    /\ en_dicts' = results
    /\ en_callback' \in BOOLEAN
    /\ en_total' = Len(results)
    /\ en_i' = 0
    /\ energies' = <<>>
    /\ en_calls' = <<>>
    /\ en_prev' = None
    /\ UNCHANGED <<builderVars, frameVars, screenVars, flowVars, sessionVars, prev,
                   batchVars, mpVars, zipVars>>

\* lines 69-74: one pass of the for loop
EnergyStep ==
    /\ en_pc = "loop"
    /\ en_i < Len(en_dicts)
    /\ LET entry == en_dicts[en_i + 1]
       IN energies' = AppendEnergy(energies, PotentialEnergy(entry.structure))
    /\ en_calls' = IF en_callback
                   THEN Append(en_calls, EnergyProgress(en_i, en_total))
                   ELSE en_calls
    /\ en_i' = en_i + 1
    /\ UNCHANGED <<en_pc, en_dicts, en_callback, en_total, en_prev>>
    /\ UNCHANGED <<builderVars, frameVars, screenVars, flowVars, sessionVars, prev,
                   batchVars, mpVars, zipVars>>

\* lines 69, 75: the list is exhausted and energies is returned
EnergyDone ==
    /\ en_pc = "loop"
    /\ en_i >= Len(en_dicts)
    /\ en_pc' = "done"
    /\ UNCHANGED <<en_dicts, en_callback, en_total, en_i, energies, en_calls, en_prev>>
    /\ UNCHANGED <<builderVars, frameVars, screenVars, flowVars, sessionVars, prev,
                   batchVars, mpVars, zipVars>>

\* the caller keeps the energies and calls again with the same list, with
\* or without a callback
EnergyAgain ==
    /\ en_pc = "done"
    /\ en_prev' = IF en_prev = None
                  THEN Some([callback |-> en_callback, energies |-> energies])
                  ELSE en_prev
    /\ en_pc' = "loop"
    /\ en_callback' \in BOOLEAN
    /\ en_total' = Len(en_dicts)
    /\ en_i' = 0
    /\ energies' = <<>>
    /\ en_calls' = <<>>
    /\ UNCHANGED en_dicts
    /\ UNCHANGED <<builderVars, frameVars, screenVars, flowVars, sessionVars, prev,
                   batchVars, mpVars, zipVars>>

\* the caller is done with the energies
EnergyReturn ==
    /\ en_pc = "done"
    /\ en_pc' = "idle"
    /\ en_dicts' = <<>>
    /\ en_callback' = FALSE
    /\ en_total' = 0
    /\ en_i' = 0
    /\ energies' = <<>>
    /\ en_calls' = <<>>
    /\ en_prev' = None
    /\ UNCHANGED <<builderVars, frameVars, screenVars, flowVars, sessionVars, prev,
                   batchVars, mpVars, zipVars>>

\* the caller is done with the list build_interfaces returned
CallerReturn == CallerFree /\ Return

\* --------------------------------------------------------------------- text
\* Text is a sequence of one-character strings, so that strip, upper, lower
\* and the substring tests of mp_client.py are computed on the characters.
Whitespace == {" "}

LowerLetters == <<"a", "b", "c", "d", "e", "f", "g", "h", "i", "j", "k", "l", "m", "n", "o", "p", "q", "r", "s", "t", "u", "v", "w", "x", "y", "z">>
UpperLetters == <<"A", "B", "C", "D", "E", "F", "G", "H", "I", "J", "K", "L", "M", "N", "O", "P", "Q", "R", "S", "T", "U", "V", "W", "X", "Y", "Z">>

\* str.upper() and str.lower()
UpperChar(c) ==
    IF \E k \in 1..Len(LowerLetters) : LowerLetters[k] = c
    THEN UpperLetters[CHOOSE k \in 1..Len(LowerLetters) : LowerLetters[k] = c]
    ELSE c
LowerChar(c) ==
    IF \E k \in 1..Len(UpperLetters) : UpperLetters[k] = c
    THEN LowerLetters[CHOOSE k \in 1..Len(UpperLetters) : UpperLetters[k] = c]
    ELSE c
Upper(s) == [k \in 1..Len(s) |-> UpperChar(s[k])]
Lower(s) == [k \in 1..Len(s) |-> LowerChar(s[k])]

\* sub in s
Contains(s, sub) ==
    \E k \in 0..(Len(s) - Len(sub)) : SubSeq(s, k + 1, k + Len(sub)) = sub

RECURSIVE LStrip(_)
LStrip(s) == IF s # <<>> /\ Head(s) \in Whitespace THEN LStrip(Tail(s)) ELSE s
RECURSIVE RStrip(_)
RStrip(s) ==
    IF s # <<>> /\ s[Len(s)] \in Whitespace THEN RStrip(SubSeq(s, 1, Len(s) - 1)) ELSE s

\* lines 21, 94: str.strip()
Strip_Leading(s) == LStrip(s)
Strip(s) == RStrip(LStrip(s))

\* ---------------------------------------------------- the script's batches
\* make_interfaces.py 66-71: --batch-size is any integer
BatchSizes == (0 - 1)..MaxBatch

\* make_interfaces.py 184-193 with a loop test that runs before the append
RECURSIVE BatchLoop_TestFirst(_, _, _, _, _)
BatchLoop_TestFirst(ms, it, size, interfaces, pulled) ==
    LET nx == get_interfaces_next(ms, it.pos)
    IN IF nx.kind # "yield"
       THEN [interfaces |-> interfaces, it |-> [it EXCEPT !.pos = nx.at],
             pulls |-> pulled + 1, raised |-> nx.kind = "raise"]
       ELSE IF Len(interfaces) >= size
       THEN [interfaces |-> interfaces, it |-> [it EXCEPT !.pos = nx.at + 1],
             pulls |-> pulled + 1, raised |-> FALSE]
       ELSE BatchLoop_TestFirst(ms, [it EXCEPT !.pos = nx.at + 1], size,
                                Append(interfaces, [match |-> nx.at,
                                                    termination |-> it.termination]),
                                pulled + 1)

\* make_interfaces.py 187-191: the for loop from the state (interfaces,
\* pulled) on. The iterator it walks the match list ms; the result holds the
\* list, the iterator afterwards, the number of elements requested and
\* whether the iterator raised
RECURSIVE BatchLoop(_, _, _, _, _)
BatchLoop(ms, it, size, interfaces, pulled) ==
    LET nx == get_interfaces_next(ms, it.pos)
    IN IF nx.kind # "yield"
       THEN [interfaces |-> interfaces, it |-> [it EXCEPT !.pos = nx.at],
             pulls |-> pulled + 1, raised |-> nx.kind = "raise"]
       ELSE LET got == Append(interfaces, [match |-> nx.at, termination |-> it.termination])
                after == [it EXCEPT !.pos = nx.at + 1]
            IN IF Len(got) >= size
               THEN [interfaces |-> got, it |-> after, pulls |-> pulled + 1, raised |-> FALSE]
               ELSE BatchLoop(ms, after, size, got, pulled + 1)

\* make_interfaces.py 184-193
generate_interfaces_batch_TestFirst(ms, it, size) == BatchLoop_TestFirst(ms, it, size, <<>>, 0)
generate_interfaces_batch(ms, it, size) == BatchLoop(ms, it, size, <<>>, 0)

\* make_interfaces.py 189: the counts displayed while a batch appended
\* interfaces, print_progress_bar(current_count + i + 1) for i = 0, 1, ...
BatchProgress(current_count, interfaces) ==
    [k \in 1..Len(interfaces) |-> current_count + (k - 1) + 1]

\* the decimal digits
Digits == <<"0", "1", "2", "3", "4", "5", "6", "7", "8", "9">>
IsDigit(c) == \E k \in 1..Len(Digits) : Digits[k] = c
DigitValue(c) == (CHOOSE k \in 1..Len(Digits) : Digits[k] = c) - 1

RECURSIVE DigitsValue(_)
DigitsValue(s) ==
    IF s = <<>> THEN 0
    ELSE 10 * DigitsValue(SubSeq(s, 1, Len(s) - 1)) + DigitValue(s[Len(s)])

\* make_interfaces.py 163: int(choice) of a text: surrounding whitespace and
\* one sign are allowed, the rest has to be digits; None stands for ValueError
int(text) ==
    LET t == Strip(text)
        signed == t # <<>> /\ t[1] \in {"+", "-"}
        body == IF signed THEN Tail(t) ELSE t
    IN IF body = <<>> \/ \E k \in 1..Len(body) : ~IsDigit(body[k])
       THEN None
       ELSE Some(IF signed /\ t[1] = "-" THEN 0 - DigitsValue(body) ELSE DigitsValue(body))

\* make_interfaces.py 164: the test on the entered index
InRange_NoLowerBound(idx, n) == idx < n
InRange(idx, n) == 0 <= idx /\ idx < n

\* make_interfaces.py 165: terminations[idx] as the position in the list,
\* counted from 1; a negative idx counts from the end
TerminationAt(idx, n) == IF idx < 0 THEN n + idx + 1 ELSE idx + 1

\* the texts entered at "Select termination", each with the integer it
\* denotes, if any
Choices ==
    {[text |-> <<"0">>, means |-> Some(0)],
     [text |-> <<"1">>, means |-> Some(1)],
     [text |-> <<" ", "1", " ">>, means |-> Some(1)],
     [text |-> <<"+", "1">>, means |-> Some(1)],
     [text |-> <<"2">>, means |-> Some(2)],
     [text |-> <<"1", "2">>, means |-> Some(12)],
     [text |-> <<"-", "1">>, means |-> Some(0 - 1)],
     [text |-> <<"x">>, means |-> None],
     [text |-> <<>>, means |-> None],
     [text |-> <<"1", ".", "0">>, means |-> None]}

\* the answers given to "Generate more interfaces?"
Responses == {<<"n">>, <<"n", "o">>, <<"y">>, <<"y", "e", "s">>, <<" ", "Y", " ">>, <<"N", "O">>, <<"x">>, <<>>}

\* make_interfaces.py 269-273: main has the builder; without a termination
\* it prints an error and exits with code 1, otherwise it asks for one
CliBegin ==
    /\ pc = "idle"
    /\ CallerFree
    /\ cli_pc' = IF terminations = 0 THEN "exit1" ELSE "select"
    /\ UNCHANGED <<batch_size, cli_it, all_interfaces, batch, batch_pulls, cli_progress,
                   cli_response, cli_choice, selected_termination>>
    /\ UNCHANGED <<builderVars, frameVars, screenVars, flowVars, sessionVars, prev,
                   energyVars, mpVars, zipVars>>

\* make_interfaces.py 160-168: one pass of select_termination's loop
CliSelect ==
    /\ cli_pc = "select"
    /\ \E choice \in Choices :
        LET idx == int(Strip(choice.text))
        IN /\ cli_choice' = Some(choice)
           /\ IF idx # None /\ InRange(idx[1], terminations)
              THEN /\ selected_termination' = Some(TerminationAt(idx[1], terminations))
                   /\ cli_pc' = "selected"
              ELSE UNCHANGED <<selected_termination, cli_pc>>
    /\ UNCHANGED <<batch_size, cli_it, all_interfaces, batch, batch_pulls, cli_progress,
                   cli_response>>
    /\ UNCHANGED <<builderVars, frameVars, screenVars, flowVars, sessionVars, prev,
                   energyVars, mpVars, zipVars>>

\* make_interfaces.py 274-296: the iterator is made for the selected
\* termination and the first batch is generated; an exception of the
\* iterator is not caught
CliFirstBatch ==
    /\ cli_pc = "selected"
    /\ \E size \in BatchSizes :
        LET r == generate_interfaces_batch(zsl_matches,
                                           [pos |-> get_interfaces(cli_it.pos),
                                            termination |-> selected_termination[1]], size)
        IN /\ batch_size' = size
           /\ cli_it' = r.it
           /\ batch' = r.interfaces
           /\ batch_pulls' = r.pulls
           /\ cli_progress' = BatchProgress(Len(all_interfaces), r.interfaces)
           /\ all_interfaces' = IF r.raised THEN <<>> ELSE r.interfaces
           /\ cli_pc' = IF r.raised THEN "crashed"
                        ELSE IF Len(r.interfaces) < size THEN "finished"
                        ELSE "prompt"
    /\ UNCHANGED <<cli_response, cli_choice, selected_termination>>
    /\ UNCHANGED <<builderVars, frameVars, screenVars, flowVars, sessionVars, prev,
                   energyVars, mpVars, zipVars>>

\* make_interfaces.py 300-328: the answer to "Generate more interfaces?",
\* stripped and lower-cased
CliAnswer ==
    /\ cli_pc = "prompt"
    /\ \E text \in Responses :
        LET response == Lower(Strip(text))
        IN /\ cli_response' = Some(text)
           /\ IF response \in {<<"n">>, <<"n", "o">>}
              THEN /\ cli_pc' = "finished"
                   /\ UNCHANGED <<batch_size, cli_it, all_interfaces, batch, batch_pulls,
                                  cli_progress>>
              ELSE IF response \in {<<"y">>, <<"y", "e", "s">>}
              THEN LET r == generate_interfaces_batch(zsl_matches, cli_it, batch_size)
                   IN /\ cli_it' = r.it
                      /\ batch' = r.interfaces
                      /\ batch_pulls' = r.pulls
                      /\ cli_progress' = cli_progress
                                          \o BatchProgress(Len(all_interfaces), r.interfaces)
                      /\ all_interfaces' = IF r.raised THEN <<>>
                                           ELSE all_interfaces \o r.interfaces
                      /\ cli_pc' = IF r.raised THEN "crashed"
                                   ELSE IF r.interfaces = <<>> \/ Len(r.interfaces) < batch_size
                                   THEN "finished"
                                   ELSE "prompt"
                      /\ UNCHANGED batch_size
              ELSE UNCHANGED <<cli_pc, batch_size, cli_it, all_interfaces, batch,
                               batch_pulls, cli_progress>>
    /\ UNCHANGED <<cli_choice, selected_termination>>
    /\ UNCHANGED <<builderVars, frameVars, screenVars, flowVars, sessionVars, prev,
                   energyVars, mpVars, zipVars>>

\* the script's process is over
CliEnd ==
    /\ cli_pc \in {"finished", "crashed", "exit1"}
    /\ cli_pc' = "idle"
    /\ batch_size' = 0
    /\ cli_it' = [pos |-> 1, termination |-> 0]
    /\ all_interfaces' = <<>>
    /\ batch' = <<>>
    /\ batch_pulls' = 0
    /\ cli_progress' = <<>>
    /\ cli_response' = None
    /\ cli_choice' = None
    /\ selected_termination' = None
    /\ UNCHANGED <<builderVars, frameVars, screenVars, flowVars, sessionVars, prev,
                   energyVars, mpVars, zipVars>>

NextCalls ==
    \/ CallFirst
    \/ CallAgain
    \/ LoopYield
    \/ LoopExhausted
    \/ LoopRaise
    \/ CallerReturn
    \/ EnergyCall
    \/ EnergyStep
    \/ EnergyDone
    \/ EnergyAgain
    \/ EnergyReturn
    \/ CliBegin
    \/ CliSelect
    \/ CliFirstBatch
    \/ CliAnswer
    \/ CliEnd

SpecCalls == InitCalls /\ [][NextCalls]_vars

\* ---------------------------------------------------- repeated call claims
\* the call that just ended had the arguments of the remembered first call
SameArguments ==
    /\ prev # None
    /\ prev[1].termination = termination
    /\ prev[1].progress_callback = progress_callback

\* C11: a call of build_interfaces with the arguments of an earlier call on
\* the same builder ends the same way and returns an equal list, whatever
\* termination was used in between; every call starts at the first match,
\* and no call changes the builder's match list or its terminations.
C11_Idempotent ==
    /\ []((pc \in {"done", "raised"} /\ SameArguments)
            => /\ pc = prev[1].outcome
               /\ pc = "done" => results = prev[1].results)
    /\ [][(pc # "loop" /\ pc' = "loop") => it_pos' = 1]_vars
    /\ [][zsl_matches' = zsl_matches /\ terminations' = terminations]_vars

\* a call that returned two entries, the same as the first call's, after a
\* call with another termination
C11_Witness ==
    /\ pc = "done"
    /\ SameArguments
    /\ prev[1].others
    /\ Len(results) >= 2
    /\ results = prev[1].results

\* the loop of build_interfaces (line 144) or of generate_interfaces_batch
\* (line 190) ended through its count test
CountReached == pc = "done" /\ results # <<>> /\ BreakNow(num_interfaces, results)
BatchCountReached == cli_pc # "idle" /\ batch # <<>> /\ Len(batch) >= batch_size

\* C12: with a bound, build_interfaces and generate_interfaces_batch request
\* from the iterator exactly the elements they return: every element
\* obtained is in the list, and when the count is reached the iterator
\* stands right behind the last element returned and was not asked again.
C12_Lazy ==
    /\ pc \in {"loop", "done", "raised"} => i = Len(results)
    /\ pc \in {"done", "raised"} => pulls \in {Len(results), Len(results) + 1}
    /\ CountReached
         => /\ pulls = Len(results)
            /\ it_pos = results[Len(results)].structure.match + 1
    /\ cli_pc # "idle" => batch_pulls \in {Len(batch), Len(batch) + 1}
    /\ BatchCountReached
         => /\ batch_pulls = Len(batch)
            /\ cli_it.pos = batch[Len(batch)].match + 1

\* a second batch that reached its size while a usable match was left
C12_Witness ==
    /\ BatchCountReached
    /\ Len(all_interfaces) > Len(batch)
    /\ get_interfaces_next(zsl_matches, cli_it.pos).kind = "yield"

\* the callback invocations a call owes for n items: (1, t), (2, t), ... (n, t)
OncePerItem(n, t) == [k \in 1..n |-> <<k, t>>]

\* C13: the progress callback does not change what build_interfaces and
\* compute_interface_energies return; when there is one it is invoked once
\* per item, in the step that appends the item, with (k, total) for k = 1,
\* 2, ... and the same total every time; when there is none nothing is
\* invoked.
C13_CallbackAdvisory ==
    /\ [](pc \in {"loop", "done", "raised"}
            => cb_calls = IF progress_callback
                          THEN OncePerItem(Len(results), count_zsl_matches(zsl_matches))
                          ELSE <<>>)
    /\ [](en_pc \in {"loop", "done"}
            => en_calls = IF en_callback
                          THEN OncePerItem(Len(energies), Len(en_dicts))
                          ELSE <<>>)
    /\ [][cb_calls' # cb_calls /\ cb_calls' # <<>>
            => /\ results' = Append(results, results'[Len(results')])
               /\ cb_calls' = Append(cb_calls, <<Len(results'), total>>)]_vars
    /\ [][en_calls' # en_calls /\ en_calls' # <<>>
            => /\ energies' = Append(energies, energies'[Len(energies')])
               /\ en_calls' = Append(en_calls, <<Len(energies'), en_total>>)]_vars
    /\ []((pc \in {"done", "raised"} /\ prev # None
            /\ prev[1].termination = termination
            /\ prev[1].progress_callback # progress_callback)
            => /\ pc = prev[1].outcome
               /\ pc = "done" => results = prev[1].results)
    /\ []((en_pc = "done" /\ en_prev # None /\ en_prev[1].callback # en_callback)
            => energies = en_prev[1].energies)

\* energies of two entries computed with a callback, equal to those an
\* earlier call without one gave
C13_Witness ==
    /\ en_pc = "done"
    /\ en_callback
    /\ en_prev # None
    /\ ~en_prev[1].callback
    /\ Len(energies) >= 2
    /\ en_calls = OncePerItem(Len(energies), Len(en_dicts))

\* C20: compute_interface_energies returns one energy per input entry, the
\* energy at position j being that of the structure of input entry j, and
\* the input list is afterwards what it was when it was passed.
C20_EnergiesInOrder ==
    /\ en_pc = "done"
         => /\ Len(energies) = Len(en_dicts)
            /\ \A j \in 1..Len(en_dicts) :
                  energies[j] = PotentialEnergy(en_dicts[j].structure)
    /\ en_pc # "idle" => (en_dicts = results /\ en_total = Len(results))

\* energies of a list of two entries with different structures
C20_Witness ==
    /\ en_pc = "done"
    /\ en_prev = None
    /\ Len(en_dicts) >= 2
    /\ Len(energies) = Len(en_dicts)
    /\ energies[1] # energies[2]

\* ================================================== Materials Project client
\* the mp_id arguments tried: empty, blank, plain, padded, and two whose
\* digits spell an HTTP status
MpIds ==
    {<<>>, <<" ">>, <<"m", "p", "-", "1">>, <<" ", "m", "p", "-", "1", " ">>, <<"m", "p", "-", "4", "0", "1">>, <<"m", "p", "-", "1", "4", "0", "4">>}

\* the formula arguments tried
Formulas == {<<>>, <<" ">>, <<"S", "i">>, <<" ", "S", "i", " ">>}

\* What the Materials Project client library can do after the request was
\* made. A failure has a cause, the exception class the library raises for
\* it, and a message; the message of some failures names the identifier
\* asked for.
FailureTexts(id) ==
    {[cause |-> "not_found", class |-> "MPRestError", text |-> <<"s", "t", "a", "t", "u", "s", " ", "c", "o", "d", "e", " ", "4", "0", "4">>],
     [cause |-> "not_found", class |-> "MPRestError", text |-> id \o <<" ", "n", "o", "t", " ", "f", "o", "u", "n", "d">>],
     [cause |-> "bad_key", class |-> "MPRestError", text |-> <<"4", "0", "1", " ", "U", "n", "a", "u", "t", "h", "o", "r", "i", "z", "e", "d">>],
     [cause |-> "bad_key", class |-> "MPRestError", text |-> <<"b", "a", "d", " ", "a", "p", "i", "_", "k", "e", "y">>],
     [cause |-> "bad_key", class |-> "ValueError", text |-> <<"u", "s", "e", " ", "a", " ", "n", "e", "w", " ", "A", "P", "I", " ", "k", "e", "y">>],
     [cause |-> "network", class |-> "ConnectionError", text |-> <<"t", "i", "m", "e", "d", " ", "o", "u", "t">>],
     [cause |-> "network", class |-> "ConnectionError", text |-> <<"h", "o", "s", "t", " ", "n", "o", "t", " ", "f", "o", "u", "n", "d">>]}

Failures(id) ==
    {[status |-> "fails", cause |-> f.cause, class |-> f.class, text |-> f.text,
      docs |-> <<>>] : f \in FailureTexts(id)}

\* energy_above_hull of a document: missing, 0.0 or larger (in 0.1 eV)
Hulls == {None, Some(0), Some(1)}

\* the summary documents of a search, in the order the API returns them;
\* material_id is the position in that order
DocLists ==
    UNION {{[k \in 1..n |-> [material_id |-> k, formula_pretty |-> "F",
                              energy_above_hull |-> h[k], nsites |-> 2]]
            : h \in [1..n -> Hulls]} : n \in 0..MaxDocs}

Successes(docs) ==
    {[status |-> "ok", cause |-> "", class |-> "", text |-> <<>>, docs |-> d] : d \in docs}

Raised(exc, text, about) ==
    Some([kind |-> "raised", exc |-> exc, text |-> text, about |-> about, value |-> <<>>])
ReturnedValue(value) ==
    Some([kind |-> "returned", exc |-> "", text |-> "", about |-> <<>>, value |-> value])

\* lines 68-71, 131-134
LooksLikeBadKey(msg) ==
    \/ Contains(Upper(msg), <<"A", "P", "I", "_", "K", "E", "Y">>)
    \/ Contains(msg, <<"4", "0", "1">>)
    \/ Contains(Upper(msg), <<"U", "N", "A", "U", "T", "H", "O", "R", "I", "Z", "E", "D">>)

\* line 72
LooksLikeNotFound(msg) ==
    \/ Contains(msg, <<"4", "0", "4">>)
    \/ Contains(Lower(msg), <<"n", "o", "t", " ", "f", "o", "u", "n", "d">>)

\* lines 21-76: fetch_structure(api_key, mp_id) when the library reacts with
\* env once the client is open
fetch_structure(arg, env) ==
    LET mp_id == Strip(arg)
    IN IF mp_id = <<>>
       THEN [opened |-> FALSE, request |-> None,
             result |-> Raised("ValueError", "Material ID cannot be empty.", <<>>)]
       ELSE [opened |-> TRUE, request |-> Some(mp_id),
             result |->
               IF env.status = "ok"
               THEN IF env.docs = <<>>
                    THEN Raised("ValueError", "No summary data found for {mp_id}.", mp_id)
                    ELSE ReturnedValue([mp_id |-> mp_id,
                                        formula |-> env.docs[1].formula_pretty,
                                        nsites |-> env.docs[1].nsites,
                                        energy_above_hull |-> env.docs[1].energy_above_hull])
               ELSE IF env.class = "ValueError"
               THEN Raised("ValueError", "{library}", env.text)
               ELSE IF LooksLikeBadKey(env.text)
               THEN Raised("ValueError", "Invalid API key.", <<>>)
               ELSE IF LooksLikeNotFound(env.text)
               THEN Raised("ValueError", "Material ID '{mp_id}' not found.", mp_id)
               ELSE Raised("ConnectionError", "Error contacting Materials Project: {msg}",
                           env.text)]

\* line 124: the sort key, x["energy_above_hull"] or 0.0
HullKey_NoneLast(x) == IF x.energy_above_hull = None THEN 9 ELSE x.energy_above_hull[1]
HullKey(x) == IF x.energy_above_hull = None THEN 0 ELSE x.energy_above_hull[1]

\* list.sort is stable: x goes after every element whose key is not larger
InsertByHull(x, sorted) ==
    LET n == Cardinality({j \in 1..Len(sorted) : HullKey(sorted[j]) <= HullKey(x)})
    IN SubSeq(sorted, 1, n) \o <<x>> \o SubSeq(sorted, n + 1, Len(sorted))

RECURSIVE SortByHull(_)
SortByHull(rs) ==
    IF rs = <<>> THEN <<>>
    ELSE InsertByHull(rs[Len(rs)], SortByHull(SubSeq(rs, 1, Len(rs) - 1)))

\* lines 114-122: the dict made of a document
SearchEntry(doc) ==
    [material_id |-> doc.material_id, formula_pretty |-> doc.formula_pretty,
     energy_above_hull |-> doc.energy_above_hull, nsites |-> doc.nsites]

\* lines 94-137: search_by_formula(api_key, formula)
search_by_formula(arg, env) ==
    LET formula == Strip(arg)
    IN IF formula = <<>>
       THEN [opened |-> FALSE, request |-> None,
             result |-> Raised("ValueError", "Formula cannot be empty.", <<>>)]
       ELSE [opened |-> TRUE, request |-> Some(formula),
             result |->
               IF env.status = "ok"
               THEN IF env.docs = <<>>
                    THEN Raised("ValueError", "No materials found for formula '{formula}'.",
                                formula)
                    ELSE ReturnedValue(SortByHull([k \in 1..Len(env.docs) |->
                                                      SearchEntry(env.docs[k])]))
               ELSE IF env.class = "ValueError"
               THEN Raised("ValueError", "{library}", env.text)
               ELSE IF LooksLikeBadKey(env.text)
               THEN Raised("ValueError", "Invalid API key.", <<>>)
               ELSE Raised("ConnectionError", "Error contacting Materials Project: {msg}",
                           env.text)]

InitMP ==
    /\ zsl_matches = <<>>
    /\ terminations = 0
    /\ cib_max_area = DefaultMaxArea
    /\ FrameIdle
    /\ surface_matches = <<>>
    /\ ScreenIdle
    /\ FlowIdle
    /\ SessionIdle
    /\ ExtIdle

\* a call of fetch_structure
FetchStructure ==
    /\ \E arg \in MpIds :
        \E env \in Successes({<<>>, <<[material_id |-> 1, formula_pretty |-> "F",
                                        energy_above_hull |-> Some(0), nsites |-> 2]>>})
                    \cup Failures(Strip(arg)) :
            LET r == fetch_structure(arg, env)
            IN /\ mp_fn' = "fetch_structure"
               /\ mp_arg' = arg
               /\ mp_env' = IF r.opened THEN Some(env) ELSE None
               /\ mp_opened' = r.opened
               /\ mp_request' = r.request
               /\ mp_result' = r.result
    /\ UNCHANGED <<builderVars, frameVars, screenVars, flowVars, sessionVars, prev,
                   energyVars, batchVars, zipVars>>

\* a call of search_by_formula
SearchByFormula ==
    /\ \E arg \in Formulas :
        \E env \in Successes(DocLists) \cup Failures(Strip(arg)) :
            LET r == search_by_formula(arg, env)
            IN /\ mp_fn' = "search_by_formula"
               /\ mp_arg' = arg
               /\ mp_env' = IF r.opened THEN Some(env) ELSE None
               /\ mp_opened' = r.opened
               /\ mp_request' = r.request
               /\ mp_result' = r.result
    /\ UNCHANGED <<builderVars, frameVars, screenVars, flowVars, sessionVars, prev,
                   energyVars, batchVars, zipVars>>

NextMP ==
    \/ FetchStructure
    \/ SearchByFormula

SpecMP == InitMP /\ [][NextMP]_vars

\* --------------------------------------------------------- client claims
\* C16: when the library fails, fetch_structure raises ValueError with the
\* "not found" message if the material does not exist, ValueError with the
\* "Invalid API key" message if the key is invalid and ConnectionError if
\* the network failed; a ValueError raised inside goes out unchanged; nothing
\* else is raised.
C16_ErrorClasses ==
    (mp_fn = "fetch_structure" /\ mp_env # None /\ mp_env[1].status = "fails")
        => LET f == mp_env[1]
               r == mp_result[1]
           IN /\ r.kind = "raised"
              /\ r.exc \in {"ValueError", "ConnectionError"}
              /\ f.class = "ValueError"
                   => (r.exc = "ValueError" /\ r.text = "{library}" /\ r.about = f.text)
              /\ (f.class # "ValueError" /\ f.cause = "not_found")
                   => (r.exc = "ValueError" /\ r.text = "Material ID '{mp_id}' not found.")
              /\ (f.class # "ValueError" /\ f.cause = "bad_key")
                   => (r.exc = "ValueError" /\ r.text = "Invalid API key.")
              /\ (f.class # "ValueError" /\ f.cause = "network")
                   => r.exc = "ConnectionError"

Blank(arg) == \A k \in 1..Len(arg) : arg[k] \in Whitespace

\* arg is r with nothing but whitespace before and after it
PaddingOf(arg, r) ==
    \E a \in 0..(Len(arg) - Len(r)) :
        /\ SubSeq(arg, a + 1, a + Len(r)) = r
        /\ \A k \in 1..Len(arg) : (k <= a \/ k > a + Len(r)) => arg[k] \in Whitespace

\* C17: fetch_structure and search_by_formula raise ValueError for an empty
\* or blank argument without opening the API client; for any other argument
\* the request carries the argument without its surrounding whitespace.
C17_BlankRejected ==
    mp_fn # "none"
        => IF Blank(mp_arg)
           THEN /\ ~mp_opened
                /\ mp_request = None
                /\ mp_result[1].kind = "raised"
                /\ mp_result[1].exc = "ValueError"
                /\ mp_result[1].text = IF mp_fn = "fetch_structure"
                                       THEN "Material ID cannot be empty."
                                       ELSE "Formula cannot be empty."
           ELSE /\ mp_opened
                /\ mp_request # None
                /\ LET r == mp_request[1]
                   IN /\ r # <<>>
                      /\ r[1] \notin Whitespace
                      /\ r[Len(r)] \notin Whitespace
                      /\ PaddingOf(mp_arg, r)

\* a padded identifier went out without its padding
C17_Witness ==
    /\ mp_fn = "fetch_structure"
    /\ mp_opened
    /\ mp_request # None
    /\ Len(mp_request[1]) + 2 = Len(mp_arg)
    /\ mp_arg[1] \in Whitespace
    /\ mp_arg[Len(mp_arg)] \in Whitespace

\* a missing energy_above_hull counts as 0.0
NoneAsZero(h) == IF h = None THEN 0 ELSE h[1]

\* C18: search_by_formula returns one entry per document found, in
\* non-decreasing order of energy_above_hull with a missing value counted as
\* 0.0 and entries of equal value in the API's order; when no document is
\* found it raises ValueError.
C18_SortedByHull ==
    (mp_fn = "search_by_formula" /\ mp_env # None /\ mp_env[1].status = "ok")
        => LET docs == mp_env[1].docs
               r == mp_result[1]
           IN IF docs = <<>>
              THEN /\ r.kind = "raised"
                   /\ r.exc = "ValueError"
                   /\ r.text = "No materials found for formula '{formula}'."
              ELSE /\ r.kind = "returned"
                   /\ Len(r.value) = Len(docs)
                   /\ \A k \in 1..Len(docs) :
                         Cardinality({j \in 1..Len(r.value) : r.value[j] = SearchEntry(docs[k])}) = 1
                   /\ \A a, b \in 1..Len(r.value) :
                         a < b =>
                           \/ NoneAsZero(r.value[a].energy_above_hull)
                                < NoneAsZero(r.value[b].energy_above_hull)
                           \/ /\ NoneAsZero(r.value[a].energy_above_hull)
                                   = NoneAsZero(r.value[b].energy_above_hull)
                              /\ r.value[a].material_id < r.value[b].material_id

\* three documents with the values 0.1, missing, 0.0 come back as the
\* second, the third, the first
C18_Witness ==
    /\ mp_fn = "search_by_formula"
    /\ mp_result # None
    /\ mp_result[1].kind = "returned"
    /\ Len(mp_result[1].value) >= 3
    /\ mp_result[1].value[1].material_id = 2
    /\ mp_result[1].value[1].energy_above_hull = None
    /\ mp_result[1].value[2].material_id = 3
    /\ mp_result[1].value[2].energy_above_hull = Some(0)
    /\ mp_result[1].value[3].material_id = 1

\* ==================================================================== export
\* what fetch_structure stored for a loaded material (app.py 210-211); the
\* structure is named by the material it belongs to
Materials ==
    {[mp_id |-> <<"m", "p", "-", "1", "4", "9">>, formula |-> <<"S", "i">>, structure |-> "Si-149"],
     [mp_id |-> <<"m", "p", "-", "1", "6", "5">>, formula |-> <<"S", "i">>, structure |-> "Si-165"],
     [mp_id |-> <<"m", "p", "-", "2", "5", "3", "4">>, formula |-> <<"G", "a", "A", "s">>, structure |-> "GaAs-2534"]}

\* exporters.py 10-17: the text of a structure in a format
to_poscar(struct) == [format |-> "poscar", structure |-> struct]
to_cif(struct) == [format |-> "cif", structure |-> struct]

\* a dict is the sequence of its items in insertion order, with unique keys;
\* d[k] = v replaces the value of an existing key and appends a new one
DictSet(d, k, v) ==
    IF \E j \in 1..Len(d) : d[j].key = k
    THEN [j \in 1..Len(d) |-> IF d[j].key = k THEN [key |-> k, value |-> v] ELSE d[j]]
    ELSE Append(d, [key |-> k, value |-> v])

\* a dict display {k1: v1, k2: v2, ...}
RECURSIVE DictOf(_)
DictOf(items) ==
    IF items = <<>> THEN <<>>
    ELSE DictSet(DictOf(SubSeq(items, 1, Len(items) - 1)),
                 items[Len(items)].key, items[Len(items)].value)

\* app.py 414-415: f"{data['mp_id']}_{data['formula']}"
Label(data) == data.mp_id \o <<"_">> \o data.formula

\* exporters.py 30-33 writing the POSCAR only
RECURSIVE to_zip_PoscarOnly(_)
to_zip_PoscarOnly(structures) ==
    IF structures = <<>> THEN <<>>
    ELSE LET item == structures[Len(structures)]
         IN to_zip_PoscarOnly(SubSeq(structures, 1, Len(structures) - 1))
            \o <<[name |-> item.key \o <<".", "v", "a", "s", "p">>, content |-> to_poscar(item.value)]>>

\* exporters.py 20-34: the members of the archive, in the order written
RECURSIVE to_zip(_)
to_zip(structures) ==
    IF structures = <<>> THEN <<>>
    ELSE LET item == structures[Len(structures)]
         IN to_zip(SubSeq(structures, 1, Len(structures) - 1))
            \o <<[name |-> item.key \o <<".", "v", "a", "s", "p">>, content |-> to_poscar(item.value)],
                 [name |-> item.key \o <<".", "c", "i", "f">>, content |-> to_cif(item.value)]>>

\* the dicts to_zip is called with directly
ZipItems == {[key |-> Label(m), value |-> n.structure] : m, n \in Materials}
ZipDicts == {DictOf(items) : items \in SeqsUpTo(ZipItems, MaxStructures)}

InitZip ==
    /\ zsl_matches = <<>>
    /\ terminations = 0
    /\ cib_max_area = DefaultMaxArea
    /\ FrameIdle
    /\ surface_matches = <<>>
    /\ ScreenIdle
    /\ FlowIdle
    /\ SessionIdle
    /\ ExtIdle

\* app.py 205-211, 250-256: Look Up stores the fetched material on a side
LookUp ==
    /\ \E side \in {"left", "right"}, m \in Materials :
        IF side = "left"
        THEN left_data' = Some(m) /\ UNCHANGED right_data
        ELSE right_data' = Some(m) /\ UNCHANGED left_data
    /\ UNCHANGED <<zip_input, zip_members>>
    /\ UNCHANGED <<builderVars, frameVars, screenVars, flowVars, sessionVars, prev,
                   energyVars, batchVars, mpVars>>

\* app.py 354-424: with both sides loaded the page builds the archive for
\* the Download All (ZIP) button
DownloadAll ==
    /\ left_data # None
    /\ right_data # None
    /\ LET structures == DictOf(<<[key |-> Label(left_data[1]),
                                    value |-> left_data[1].structure],
                                   [key |-> Label(right_data[1]),
                                    value |-> right_data[1].structure]>>)
       IN /\ zip_input' = Some([by |-> "app", left |-> left_data, right |-> right_data,
                                 structures |-> structures])
          /\ zip_members' = to_zip(structures)
    /\ UNCHANGED <<left_data, right_data>>
    /\ UNCHANGED <<builderVars, frameVars, screenVars, flowVars, sessionVars, prev,
                   energyVars, batchVars, mpVars>>

\* exporters.py 20-34: to_zip called directly
CallToZip ==
    /\ \E structures \in ZipDicts :
        /\ zip_input' = Some([by |-> "api", left |-> None, right |-> None,
                               structures |-> structures])
        /\ zip_members' = to_zip(structures)
    /\ UNCHANGED <<left_data, right_data>>
    /\ UNCHANGED <<builderVars, frameVars, screenVars, flowVars, sessionVars, prev,
                   energyVars, batchVars, mpVars>>

NextZip ==
    \/ LookUp
    \/ DownloadAll
    \/ CallToZip

SpecZip == InitZip /\ [][NextZip]_vars

\* ------------------------------------------------------------ export claims
\* the archive holds, for each item of the dict and in its order, the POSCAR
\* under <label>.vasp and the CIF under <label>.cif, and nothing else
TwoPerLabel ==
    LET d == zip_input[1].structures
    IN /\ Len(zip_members) = 2 * Len(d)
       /\ \A k \in 1..Len(d) :
            /\ zip_members[2 * k - 1] = [name |-> d[k].key \o <<".", "v", "a", "s", "p">>,
                                          content |-> to_poscar(d[k].value)]
            /\ zip_members[2 * k] = [name |-> d[k].key \o <<".", "c", "i", "f">>,
                                      content |-> to_cif(d[k].value)]

\* the archive has the POSCAR and the CIF of the structure of data
Exported(data) ==
    /\ \E j \in 1..Len(zip_members) : zip_members[j].content = to_poscar(data[1].structure)
    /\ \E j \in 1..Len(zip_members) : zip_members[j].content = to_cif(data[1].structure)

\* C19 as claimed: to_zip writes exactly <label>.vasp and <label>.cif per
\* structure, and the application's archive has four members, two for each
\* loaded structure, also when the same material is loaded on both sides.
C19_FourMembers ==
    zip_input # None
        => /\ TwoPerLabel
           /\ zip_input[1].by = "app"
                => /\ Len(zip_members) = 4
                   /\ Exported(zip_input[1].left)
                   /\ Exported(zip_input[1].right)

\* C19: to_zip writes exactly <label>.vasp and <label>.cif per structure;
\* the application's archive has the POSCAR and the CIF of both loaded
\* structures, in four members when two materials are loaded and in two
\* when the same material is loaded on both sides.
C19_TwoPerMaterial ==
    zip_input # None
        => /\ TwoPerLabel
           /\ zip_input[1].by = "app"
                => /\ Len(zip_members) = IF zip_input[1].left = zip_input[1].right
                                         THEN 2 ELSE 4
                   /\ Exported(zip_input[1].left)
                   /\ Exported(zip_input[1].right)

\* the archive of the application with the same material on both sides
C19_Witness ==
    /\ zip_input # None
    /\ zip_input[1].by = "app"
    /\ zip_input[1].left = zip_input[1].right
    /\ Len(zip_members) = 2

\* ------------------------------------------------------ the script's dialogue
\* the interfaces the script's iterator yields, in its order, for the
\* termination it was made for
IteratorSequence ==
    LET ys == YieldedFrom(zsl_matches, 1)
    IN [k \in 1..Len(ys) |-> [match |-> ys[k], termination |-> cli_it.termination]]

BatchesDone == cli_pc \in {"prompt", "finished"}

\* C21: after any number of batches all_interfaces is the prefix of the
\* iterator's sequence of its length, every batch holds at most batch_size
\* interfaces, and the k-th count given to the progress display is k.
C21_BatchesArePrefix ==
    BatchesDone =>
        /\ Len(all_interfaces) <= Len(IteratorSequence)
        /\ all_interfaces = SubSeq(IteratorSequence, 1, Len(all_interfaces))
        /\ Len(batch) <= batch_size
        /\ cli_progress = [k \in 1..Len(all_interfaces) |-> k]

\* the same without the size of a batch
C21_PrefixAndCounts ==
    BatchesDone =>
        /\ Len(all_interfaces) <= Len(IteratorSequence)
        /\ all_interfaces = SubSeq(IteratorSequence, 1, Len(all_interfaces))
        /\ batch_size >= 1 => Len(batch) <= batch_size
        /\ cli_progress = [k \in 1..Len(all_interfaces) |-> k]

\* the answers that mean no, and those that mean yes
SaysNo == {<<"n">>, <<"n", "o">>, <<"N", "O">>}
SaysYes == {<<"y">>, <<"y", "e", "s">>, <<" ", "Y", " ">>}

\* the iterator has reported its end and every interface it yielded is kept
EndedByExhaustion ==
    /\ get_interfaces_next(zsl_matches, cli_it.pos).kind = "stop"
    /\ batch_pulls = Len(batch) + 1
    /\ all_interfaces = IteratorSequence

\* a prompt is issued only after a full, non-empty batch; the loop has ended
\* only after the answer no or by exhaustion
LoopEndsWhenDue ==
    /\ cli_pc = "prompt" => batch # <<>> /\ Len(batch) >= batch_size
    /\ cli_pc = "finished"
         => \/ cli_response # None /\ cli_response[1] \in SaysNo
            \/ EndedByExhaustion

\* after the end nothing is asked and nothing is requested; an answer is
\* followed as the claim says
AnswerFollowed ==
    /\ cli_pc = "finished" => cli_pc' # "prompt" /\ (cli_it' = cli_it \/ cli_pc' = "idle")
    /\ cli_pc = "prompt" /\ cli_response' # None
         => LET text == cli_response'[1]
            IN /\ text \in SaysNo
                    => cli_pc' = "finished"
                       /\ UNCHANGED <<cli_it, all_interfaces, batch_pulls, cli_progress>>
               /\ text \in SaysYes
                    => cli_pc' \in {"prompt", "finished", "crashed"}
                       /\ batch_pulls' >= 1
               /\ text \notin SaysNo \cup SaysYes
                    => cli_pc' = "prompt"
                       /\ UNCHANGED <<batch_size, cli_it, all_interfaces, batch, batch_pulls,
                                      cli_progress, cli_choice, selected_termination>>

\* C22: the batch loop ends exactly when the user answers no or the iterator
\* is exhausted: a short or empty batch ends it, after the end there is no
\* prompt and no request to the iterator, any answer other than y, yes, n, no
\* changes nothing and asks again, and on exit by exhaustion all_interfaces
\* holds everything the iterator yielded.
C22_LoopEnds == [](LoopEndsWhenDue) /\ [][AnswerFollowed]_vars

\* the entered text denotes an index of the termination list
DenotesIndex(choice) ==
    /\ choice.means # None
    /\ 0 <= choice.means[1]
    /\ choice.means[1] < terminations

\* what was returned is the element at the entered index, and the selection
\* is only reached with a termination in the list
ReturnedIsListed ==
    /\ selected_termination # None
         => /\ cli_choice # None
            /\ DenotesIndex(cli_choice[1])
            /\ selected_termination[1] = cli_choice[1].means[1] + 1
    /\ cli_pc \in {"select", "selected"} => terminations >= 1
    /\ cli_pc = "exit1" => terminations = 0 /\ cli_choice = None /\ selected_termination = None

\* an entry that denotes an index returns that element; any other entry
\* returns nothing and is followed by the same prompt
EntryFollowed ==
    cli_pc = "select" /\ cli_choice' # None
        => IF DenotesIndex(cli_choice'[1])
           THEN /\ cli_pc' = "selected"
                /\ selected_termination' = Some(cli_choice'[1].means[1] + 1)
           ELSE /\ cli_pc' = "select"
                /\ selected_termination' = None

\* C23: select_termination returns only terminations[idx] for an entered
\* integer idx with 0 <= idx < len(terminations); a negative, too large or
\* non-numeric entry is rejected and asked again; and it is reached only
\* with a non-empty list, because main exits with an error otherwise.
C23_SelectsListed == [](ReturnedIsListed) /\ [][EntryFollowed]_vars

\* the second of two terminations was selected by an entry with blanks
\* around the digit
C23_Witness ==
    /\ cli_pc = "selected"
    /\ terminations = 2
    /\ cli_choice # None
    /\ Len(cli_choice[1].text) = 3
    /\ selected_termination = Some(2)

\* an entry that was rejected: the prompt stands and nothing is returned
C23_Rejected ==
    /\ cli_pc = "select"
    /\ cli_choice # None
    /\ cli_choice[1].means = Some(0 - 1)
    /\ selected_termination = None

====
